---- MODULE Spec2Model ----
(***************************************************************************)
(* Model of the articles application: the Article and Comment rows, the    *)
(* comment views (add_comment, add_reply, edit_comment, delete_comment,    *)
(* comment_moderation) and the article detail view with its view counter.  *)
(***************************************************************************)
EXTENDS Integers, Sequences, FiniteSets, Bags, TLC

\* ------------------------------------------------------------------ bounds
MaxComments == 2
MaxThreadComments == 4
MaxTreeNodes == 5
MaxViews == 7
MaxInFlight == 2
MaxConcComments == 2
MaxConcViews == 2
MaxArticleViews == 2
MaxCascadeComments == 2
MaxArticles == 3
MaxWords == 900
MaxUnpublishedComments == 2
MaxUnpublishedViews == 1
MaxParentChanges == 1

\* ------------------------------------------------------- program constants
MinContentLen == 5
MaxContentLen == 1000
DepthWalkCap == 3
\* (the guard written with the depth the walk stops at)
ReplyGuardDepthAsWalkCap == DepthWalkCap
ReplyGuardDepth == 2
SentinelLen == 37

\* ----------------------------------------------------------------- actors
\* Python None: as a user reference and as a row key.
None == "None"
NonePk == 0
Anonymous == "AnonymousUser"
Users == {"admin", "bob"}
Requesters == Users \cup {Anonymous}

is_authenticated(u) == u \in Users
is_staff(u) == u = "admin"

\* --------------------------------------------------------------- articles
ArticlePks == {1, 2}
UnknownArticlePk == Cardinality(ArticlePks) + 1
ArticlePkInputs == ArticlePks \cup {UnknownArticlePk}

\* ------------------------------------------------------------------ texts
\* A text is its surrounding whitespace, the identity and length of what
\* lies between, and whether the spam heuristic of clean_content fires on it.
Text(l, c, n, t, s) == [lead |-> l, core |-> c, len |-> n, trail |-> t, spam |-> s]

strip(t) == [t EXCEPT !.lead = 0, !.trail = 0]
len(t) == t.lead + t.len + t.trail

TextNew == Text(1, "hola!", 5, 2, FALSE)
TextEdit == Text(0, "x1000", 1000, 0, FALSE)
TextShort == Text(2, "hola", 4, 3, FALSE)
TextLong == Text(0, "x1001", 1001, 0, FALSE)
TextSpam == Text(0, "spam spam spam spam spam spam", 29, 0, TRUE)
TextBlank == Text(3, "", 0, 0, FALSE)

\* What the requests of the model post: a comment or reply is created from
\* NewTexts, an edit posts EditTexts.
NewTexts == {TextNew, TextShort, TextLong, TextSpam, TextBlank}
ReplyTexts == {TextNew, TextShort, TextLong}
EditTexts == {TextEdit, TextShort, TextLong}

\* The two deletion sentinels (written here without the accent of the second).
SentinelUser == Text(0, "[Comentario eliminado por el usuario]", SentinelLen, 0, FALSE)
SentinelModeration == Text(0, "[Comentario eliminado por moderacion]", SentinelLen, 0, FALSE)

\* ----------------------------------------------------- titles and bodies
\* The title and body of an article are texts too; clean_title compares
\* titles without regard to case (title__iexact).
MinTitleLen == 5
MaxTitleLen == 255
MinBodyLen == 50

TitleDrift == Text(0, "Drift 101", 9, 0, FALSE)
TitleTandem == Text(0, "Tandem Basics", 13, 0, FALSE)
TitleNew == Text(1, "Drift 102", 9, 2, FALSE)
TitleUpper == Text(0, "TANDEM BASICS", 13, 0, FALSE)
TitleShort == Text(0, "Dri", 3, 1, FALSE)

lower(core) ==
    IF core \in {"Tandem Basics", "TANDEM BASICS"} THEN "tandem basics"
    ELSE IF core = "Drift 101" THEN "drift 101"
    ELSE IF core = "Drift 102" THEN "drift 102"
    ELSE IF core = "Dri" THEN "dri"
    ELSE core

iexact(t, u) == lower(t.core) = lower(u.core) /\ t.lead = u.lead /\ t.trail = u.trail

\* A body is a text with the number of words body.split() finds in it.
Body(l, c, n, t, w) ==
    [lead |-> l, core |-> c, len |-> n, trail |-> t, spam |-> FALSE, words |-> w]

BodyDrift == Body(0, "body 120", 120, 0, 20)
BodyNew == Body(2, "body 50", 50, 1, 10)
BodyShort == Body(0, "body 49", 49, 3, 9)

\* An Article row (the image column, a file on disk, left out).
Article(u, t, b) ==
    [author |-> u, is_published |-> TRUE, views_count |-> 0,
     title |-> t, body |-> b, meta_description |-> ""]

VARIABLES articles, comments, nextPk, inflight, response

vars == <<articles, comments, nextPk, inflight, response>>

\* ------------------------------------------------------------ model layer
Comment(a, u, p, c, e) ==
    [article |-> a, author |-> u, parent |-> p, content |-> c, is_edited |-> e]

\* Comment.replies: the rows whose parent is c.
replies(cs, c) == {r \in DOMAIN cs : cs[r].parent = c}

\* (the permission given to every logged-in user)
can_edit_logged_in(row, user) == is_authenticated(user)
can_delete_logged_in(row, user) == is_authenticated(user)

\* Article.can_edit / Comment.can_edit / Comment.can_delete.
can_edit(row, user) == is_authenticated(user) /\ (user = row.author \/ is_staff(user))
can_delete(row, user) == is_authenticated(user) /\ (user = row.author \/ is_staff(user))

\* (the loop bound taken inclusive)
RECURSIVE reply_depth_loop_inclusive(_, _, _)
reply_depth_loop_inclusive(cs, current, depth) ==
    IF current /= NonePk /\ depth <= DepthWalkCap
    THEN reply_depth_loop_inclusive(cs, cs[current].parent, depth + 1)
    ELSE depth

\* (the loop stopped one hop early)
RECURSIVE reply_depth_loop_cap_short(_, _, _)
reply_depth_loop_cap_short(cs, current, depth) ==
    IF current /= NonePk /\ depth < DepthWalkCap - 1
    THEN reply_depth_loop_cap_short(cs, cs[current].parent, depth + 1)
    ELSE depth

\* Comment.get_reply_depth: the while loop, one parent hop per iteration.
RECURSIVE reply_depth_loop(_, _, _)
reply_depth_loop(cs, current, depth) ==
    IF current /= NonePk /\ depth < DepthWalkCap
    THEN reply_depth_loop(cs, cs[current].parent, depth + 1)
    ELSE depth

\* (the walk started one hop late, at the parent's parent)
get_reply_depth_late(cs, c) ==
    IF cs[c].parent = NonePk THEN 0
    ELSE reply_depth_loop(cs, cs[cs[c].parent].parent, 0)

get_reply_depth(cs, c) == reply_depth_loop(cs, cs[c].parent, 0)

\* The rows Model.delete() collects through the CASCADE parent key.
RECURSIVE delete_collect(_, _)
delete_collect(cs, S) ==
    LET T == S \cup {r \in DOMAIN cs : cs[r].parent \in S}
    IN IF T = S THEN S ELSE delete_collect(cs, T)

\* (the delete issued on the rows sharing the comment's parent)
delete_siblings(cs, c) ==
    [p \in {q \in DOMAIN cs : c \notin DOMAIN cs \/ cs[q].parent /= cs[c].parent} |-> cs[p]]

\* Model.delete(): the row and everything collected from it are removed.
delete(cs, c) == [p \in DOMAIN cs \ delete_collect(cs, {c}) |-> cs[p]]

\* The store's constraints on a Comment row: author NOT NULL, article and
\* parent foreign keys.
row_constraints(cs, row) ==
    /\ row.author /= None
    /\ row.article \in DOMAIN articles
    /\ row.parent = NonePk \/ row.parent \in DOMAIN cs

\* super().save() of a Comment row: UPDATE under key pk, else INSERT; a row
\* never saved before (pk = NonePk) takes the next key.
Model_save(cs, next, pk, r) ==
    LET key == IF pk = NonePk THEN next ELSE pk
    IN IF row_constraints(cs, r)
       THEN [ok |-> TRUE,
             comments |-> [p \in DOMAIN cs \cup {key} |-> IF p = key THEN r ELSE cs[p]],
             next |-> IF pk = NonePk THEN next + 1 ELSE next]
       ELSE [ok |-> FALSE, comments |-> cs, next |-> next]

\* (the test of the flag inverted)
Comment_save_flag_inverted(cs, next, pk, row, skip_edited_flag) ==
    Model_save(cs, next, pk,
               IF pk /= NonePk /\ skip_edited_flag
               THEN [row EXCEPT !.is_edited = TRUE] ELSE row)

\* (the flag not looked at)
Comment_save_flag_ignored(cs, next, pk, row, skip_edited_flag) ==
    Model_save(cs, next, pk,
               IF pk /= NonePk THEN [row EXCEPT !.is_edited = TRUE] ELSE row)

\* (every save marking the row)
Comment_save_every_save(cs, next, pk, row, skip_edited_flag) ==
    Model_save(cs, next, pk, [row EXCEPT !.is_edited = TRUE])

\* Comment.save(): the edited flag, then super().save().
Comment_save(cs, next, pk, row, skip_edited_flag) ==
    Model_save(cs, next, pk,
               IF pk /= NonePk /\ ~skip_edited_flag
               THEN [row EXCEPT !.is_edited = TRUE] ELSE row)

\* ------------------------------------------------------------- form layer
\* (the minimum compared one too low)
clean_content_min_off_by_one(content) ==
    LET c == strip(content)
    IN IF len(c) < MinContentLen - 1 THEN [ok |-> FALSE, content |-> c]
       ELSE IF len(c) > MaxContentLen THEN [ok |-> FALSE, content |-> c]
       ELSE IF c.spam THEN [ok |-> FALSE, content |-> c]
       ELSE [ok |-> TRUE, content |-> c]

\* CommentForm.clean_content on the value the field hands it.
clean_content(content) ==
    LET c == strip(content)
    IN IF len(c) < MinContentLen THEN [ok |-> FALSE, content |-> c]
       ELSE IF len(c) > MaxContentLen THEN [ok |-> FALSE, content |-> c]
       ELSE IF c.spam THEN [ok |-> FALSE, content |-> c]
       ELSE [ok |-> TRUE, content |-> c]

\* form.is_valid(): the content field is required and at most 1000
\* characters (the field strips the value first), then clean_content.
is_valid(text) ==
    /\ len(strip(text)) > 0
    /\ len(strip(text)) <= MaxContentLen
    /\ clean_content(strip(text)).ok

cleaned_content(text) == clean_content(strip(text)).content

\* get_object_or_404(Article, pk=article_pk, is_published=True)
article_found(a) == a \in DOMAIN articles /\ articles[a].is_published
\* (the comment looked up by key alone)
comment_found_by_pk(c, a) == c \in DOMAIN comments

\* get_object_or_404(Comment, pk=comment_pk, article=article)
comment_found(c, a) == c \in DOMAIN comments /\ comments[c].article = a

Respond(status) == response' = status

\* ------------------------------------------------------------------- Init
Init ==
    /\ articles = [a \in ArticlePks |->
                     IF a = 1 THEN Article("bob", TitleDrift, BodyDrift)
                     ELSE Article("admin", TitleTandem, BodyDrift)]
    /\ comments = << >>
    /\ nextPk = 1
    /\ inflight = EmptyBag
    /\ response = "none"

\* ------------------------------------------------------ Article.increment_views
\* (the save written without update_fields: every column of the loaded row)
increment_views_whole_row(a, loaded) ==
    articles' = [articles EXCEPT
                   ![a] = [loaded EXCEPT !.views_count = loaded.views_count + 1]]

increment_views(a, loaded) ==
    articles' = [articles EXCEPT ![a].views_count = loaded.views_count + 1]

\* (only logged-in viewers counted)
counts_view_logged_in(user, obj) == is_authenticated(user) /\ user /= obj.author

\* The test of get_object: the viewer is not the article's author.
counts_view(user, obj) == user /= obj.author

\* ArticleDetailView.get_object
ArticleDetailView(user, a) ==
    /\ UNCHANGED <<comments, nextPk, inflight>>
    /\ IF ~article_found(a)
       THEN Respond("not_found") /\ UNCHANGED articles
       ELSE /\ Respond("detail")
            /\ IF counts_view(user, articles[a])
               THEN increment_views(a, articles[a])
               ELSE UNCHANGED articles

\* ------------------------------------------------------------ add_comment
add_comment(user, a, text) ==
    /\ UNCHANGED <<articles, inflight>>
    /\ IF ~is_authenticated(user)
       THEN Respond("login_required") /\ UNCHANGED <<comments, nextPk>>
       ELSE IF ~article_found(a)
       THEN Respond("not_found") /\ UNCHANGED <<comments, nextPk>>
       ELSE IF ~is_valid(text)
       THEN Respond("invalid") /\ UNCHANGED <<comments, nextPk>>
       ELSE LET saved == Comment_save(comments, nextPk, NonePk,
                           Comment(a, user, NonePk, cleaned_content(text), FALSE), TRUE)
            IN /\ comments' = saved.comments
               /\ nextPk' = saved.next
               /\ Respond("created")

\* -------------------------------------------------------------- add_reply
add_reply(user, a, c, text) ==
    /\ UNCHANGED <<articles, inflight>>
    /\ IF ~is_authenticated(user)
       THEN Respond("login_required") /\ UNCHANGED <<comments, nextPk>>
       ELSE IF ~article_found(a) \/ ~comment_found(c, a)
       THEN Respond("not_found") /\ UNCHANGED <<comments, nextPk>>
       ELSE IF get_reply_depth(comments, c) >= ReplyGuardDepth
       THEN Respond("depth_exceeded") /\ UNCHANGED <<comments, nextPk>>
       ELSE IF ~is_valid(text)
       THEN Respond("invalid") /\ UNCHANGED <<comments, nextPk>>
       ELSE LET saved == Comment_save(comments, nextPk, NonePk,
                           Comment(a, user, c, cleaned_content(text), FALSE), TRUE)
            IN /\ comments' = saved.comments
               /\ nextPk' = saved.next
               /\ Respond("replied")

\* ----------------------------------------------------------- edit_comment
edit_comment(user, method, a, c, text) ==
    /\ UNCHANGED <<articles, inflight, nextPk>>
    /\ IF ~is_authenticated(user)
       THEN Respond("login_required") /\ UNCHANGED comments
       ELSE IF ~article_found(a) \/ ~comment_found(c, a)
       THEN Respond("not_found") /\ UNCHANGED comments
       ELSE IF ~can_edit(comments[c], user)
       THEN Respond("edit_forbidden") /\ UNCHANGED comments
       ELSE IF method /= "POST"
       THEN Respond("rendered") /\ UNCHANGED comments
       ELSE IF ~is_valid(text)
       THEN Respond("invalid") /\ UNCHANGED comments
       ELSE LET saved == Comment_save(comments, nextPk, c,
                           [comments[c] EXCEPT !.content = cleaned_content(text)], FALSE)
            IN /\ comments' = saved.comments
               /\ Respond(IF saved.ok THEN "edited" ELSE "server_error")

\* --------------------------------------------------------- delete_comment
delete_comment(user, a, c) ==
    /\ UNCHANGED <<articles, inflight, nextPk>>
    /\ IF ~is_authenticated(user)
       THEN Respond("login_required") /\ UNCHANGED comments
       ELSE IF ~article_found(a) \/ ~comment_found(c, a)
       THEN Respond("not_found") /\ UNCHANGED comments
       ELSE IF ~can_delete(comments[c], user)
       THEN Respond("delete_forbidden") /\ UNCHANGED comments
       ELSE IF replies(comments, c) /= {}
       THEN LET saved == Comment_save(comments, nextPk, c,
                           [comments[c] EXCEPT !.content = SentinelUser,
                                               !.author = None], TRUE)
            IN /\ comments' = saved.comments
               /\ Respond(IF saved.ok THEN "marked_deleted" ELSE "server_error")
       ELSE /\ comments' = delete(comments, c)
            /\ Respond("deleted")

\* ----------------------------------------------------- comment_moderation
comment_moderation(user, method, c, action) ==
    /\ UNCHANGED <<articles, inflight, nextPk>>
    /\ IF ~is_authenticated(user)
       THEN Respond("login_required") /\ UNCHANGED comments
       ELSE IF ~(method = "POST" /\ is_staff(user))
       THEN Respond("rendered") /\ UNCHANGED comments
       ELSE IF c \notin DOMAIN comments
       THEN Respond("not_found") /\ UNCHANGED comments
       ELSE IF articles[comments[c].article].author /= user /\ ~is_staff(user)
       THEN Respond("forbidden") /\ UNCHANGED comments
       ELSE IF action /= "delete"
       THEN Respond("redirected") /\ UNCHANGED comments
       ELSE IF replies(comments, c) /= {}
       THEN LET saved == Comment_save(comments, nextPk, c,
                           [comments[c] EXCEPT !.content = SentinelModeration], TRUE)
            IN /\ comments' = saved.comments
               /\ Respond(IF saved.ok THEN "moderated_marked" ELSE "server_error")
       ELSE /\ comments' = delete(comments, c)
            /\ Respond("moderated_deleted")

\* ------------------------------------------------------------------- Next
CommentPkInputs == 1..MaxComments
ModerationActions == {"delete", "approve"}
NoText == Text(0, "", 0, 0, FALSE)

\* A request by a visitor who is not logged in is answered by login_required
\* whatever it names, so the model posts one such request per view.
Authenticated(user, a, c) == is_authenticated(user) \/ (a = 1 /\ c = 1)

\* The bound of the model: the keys handed out.
WithinBounds == nextPk' <= MaxComments + 1

\* The comment views, each request served from start to end.
Next ==
    \/ \E user \in Requesters, a \in ArticlePkInputs, text \in NewTexts :
         /\ Authenticated(user, a, 1) /\ (is_authenticated(user) \/ text = TextNew)
         /\ add_comment(user, a, text) /\ WithinBounds
    \/ \E user \in Requesters, a \in ArticlePks, c \in CommentPkInputs,
          text \in ReplyTexts :
         /\ Authenticated(user, a, c) /\ (is_authenticated(user) \/ text = TextNew)
         /\ add_reply(user, a, c, text) /\ WithinBounds
    \/ \E user \in Requesters, a \in ArticlePks, c \in CommentPkInputs :
         /\ Authenticated(user, a, c)
         /\ \/ edit_comment(user, "GET", a, c, NoText)
            \/ \E text \in EditTexts : edit_comment(user, "POST", a, c, text)
    \/ \E user \in Requesters, a \in ArticlePks, c \in CommentPkInputs :
         Authenticated(user, a, c) /\ delete_comment(user, a, c)
    \/ \E user \in Requesters, c \in CommentPkInputs :
         /\ Authenticated(user, 1, c)
         /\ \/ comment_moderation(user, "GET", c, "")
            \/ \E action \in ModerationActions : comment_moderation(user, "POST", c, action)

Spec == Init /\ [][Next]_vars

\* ------------------------------------------------------------ detail views
WithinViewBounds == \A a \in ArticlePks : articles'[a].views_count <= MaxViews

NextViews ==
    \E user \in Requesters, a \in ArticlePkInputs :
        ArticleDetailView(user, a) /\ WithinViewBounds

SpecViews == Init /\ [][NextViews]_vars

\* ------------------------------------------------- one thread, one article
\* The requests of logged-in users on article 1 alone, which leaves room for
\* a thread of MaxThreadComments comments. Edits are posted for comment 1.
ThreadPkInputs == 1..MaxThreadComments
ThreadTexts == {TextNew, TextShort}
WithinThreadBounds == nextPk' <= MaxThreadComments + 1

NextThread ==
    \/ \E user \in Users, text \in ThreadTexts :
         add_comment(user, 1, text) /\ WithinThreadBounds
    \/ \E user \in Users, c \in ThreadPkInputs, text \in ThreadTexts :
         add_reply(user, 1, c, text) /\ WithinThreadBounds
    \/ \E user \in Users : edit_comment(user, "POST", 1, 1, TextEdit)
    \/ \E user \in Users, c \in ThreadPkInputs : delete_comment(user, 1, c)
    \/ \E user \in Users, c \in ThreadPkInputs :
         comment_moderation(user, "POST", c, "delete")

SpecThread == Init /\ [][NextThread]_vars

\* ------------------------------------------------ threads built in the admin
\* The admin's add form offers every comment as parent, so the rows can form
\* any forest: each comment's parent is a comment saved before it, or none.
Forests ==
    {f \in [1..MaxTreeNodes -> 0..(MaxTreeNodes - 1)] : \A k \in 1..MaxTreeNodes : f[k] < k}

InitTree ==
    /\ articles = [a \in ArticlePks |->
                     IF a = 1 THEN Article("bob", TitleDrift, BodyDrift)
                     ELSE Article("admin", TitleTandem, BodyDrift)]
    /\ \E f \in Forests :
         comments = [k \in 1..MaxTreeNodes |->
                       Comment(1, "bob", f[k], strip(TextNew), FALSE)]
    /\ nextPk = MaxTreeNodes + 1
    /\ inflight = EmptyBag
    /\ response = "none"

\* CommentAdmin.comment_depth_display
comment_depth_display(c) ==
    /\ c \in DOMAIN comments
    /\ LET depth == get_reply_depth(comments, c)
       IN Respond(IF depth = 0 THEN "Comentario principal"
                  ELSE "Nivel " \o ToString(depth))
    /\ UNCHANGED <<articles, comments, nextPk, inflight>>

NextTree == \E c \in 1..MaxTreeNodes : comment_depth_display(c)

SpecTree == InitTree /\ [][NextTree]_vars

\* ------------------------------------------------- requests served in steps
\* A request in flight between what it read and what it writes: the view, its
\* user and URL keys, the Comment instance it holds, what replies.exists()
\* answered, and the Article instance it loaded.
NoRow == Comment(0, None, NonePk, NoText, FALSE)
NoArticle == [Article(None, NoText, NoText) EXCEPT !.is_published = FALSE]

Request(op, user, a, pk, row, has_replies, obj) ==
    [op |-> op, user |-> user, a |-> a, pk |-> pk, row |-> row,
     has_replies |-> has_replies, obj |-> obj]

Start(req) ==
    /\ BagCardinality(inflight) < MaxInFlight
    /\ inflight' = inflight (+) SetToBag({req})
    /\ UNCHANGED response

Finish(req) == inflight' = inflight (-) SetToBag({req})

InFlight(op) == {req \in BagToSet(inflight) : req.op = op}

\* ArticleDetailView.get_object up to the loaded object.
get_object_load(user, a) ==
    /\ UNCHANGED <<articles, comments, nextPk>>
    /\ IF ~article_found(a)
       THEN Respond("not_found") /\ UNCHANGED inflight
       ELSE IF counts_view(user, articles[a])
       THEN Start(Request("detail", user, a, NonePk, NoRow, FALSE, articles[a]))
       ELSE Respond("detail") /\ UNCHANGED inflight

\* Article.increment_views on the object loaded earlier.
get_object_increment(req) ==
    /\ req.op = "detail"
    /\ increment_views(req.a, req.obj)
    /\ Finish(req)
    /\ Respond("detail")
    /\ UNCHANGED <<comments, nextPk>>

\* add_reply up to the reply instance ready to save.
add_reply_prepare(user, a, c, text) ==
    /\ UNCHANGED <<articles, comments, nextPk>>
    /\ IF ~is_authenticated(user)
       THEN Respond("login_required") /\ UNCHANGED inflight
       ELSE IF ~article_found(a) \/ ~comment_found(c, a)
       THEN Respond("not_found") /\ UNCHANGED inflight
       ELSE IF get_reply_depth(comments, c) >= ReplyGuardDepth
       THEN Respond("depth_exceeded") /\ UNCHANGED inflight
       ELSE IF ~is_valid(text)
       THEN Respond("invalid") /\ UNCHANGED inflight
       ELSE Start(Request("add_reply", user, a, NonePk,
                          Comment(a, user, c, cleaned_content(text), FALSE),
                          FALSE, NoArticle))

\* add_reply: reply.save(skip_edited_flag=True)
add_reply_save(req) ==
    /\ req.op = "add_reply"
    /\ LET saved == Comment_save(comments, nextPk, NonePk, req.row, TRUE)
       IN /\ comments' = saved.comments
          /\ nextPk' = saved.next
          /\ Respond(IF saved.ok THEN "replied" ELSE "server_error")
    /\ Finish(req)
    /\ UNCHANGED articles

\* delete_comment up to has_replies.
delete_comment_check(user, a, c) ==
    /\ UNCHANGED <<articles, comments, nextPk>>
    /\ IF ~is_authenticated(user)
       THEN Respond("login_required") /\ UNCHANGED inflight
       ELSE IF ~article_found(a) \/ ~comment_found(c, a)
       THEN Respond("not_found") /\ UNCHANGED inflight
       ELSE IF ~can_delete(comments[c], user)
       THEN Respond("delete_forbidden") /\ UNCHANGED inflight
       ELSE Start(Request("delete_comment", user, a, c, comments[c],
                          replies(comments, c) /= {}, NoArticle))

\* delete_comment from the branch on has_replies.
delete_comment_apply(req) ==
    /\ req.op = "delete_comment"
    /\ IF req.has_replies
       THEN LET saved == Comment_save(comments, nextPk, req.pk,
                           [req.row EXCEPT !.content = SentinelUser,
                                           !.author = None], TRUE)
            IN /\ comments' = saved.comments
               /\ Respond(IF saved.ok THEN "marked_deleted" ELSE "server_error")
       ELSE /\ comments' = delete(comments, req.pk)
            /\ Respond("deleted")
    /\ Finish(req)
    /\ UNCHANGED <<articles, nextPk>>

\* comment_moderation (POST, action 'delete') up to replies.exists().
comment_moderation_check(user, c) ==
    /\ UNCHANGED <<articles, comments, nextPk>>
    /\ IF ~is_authenticated(user)
       THEN Respond("login_required") /\ UNCHANGED inflight
       ELSE IF ~is_staff(user)
       THEN Respond("rendered") /\ UNCHANGED inflight
       ELSE IF c \notin DOMAIN comments
       THEN Respond("not_found") /\ UNCHANGED inflight
       ELSE IF articles[comments[c].article].author /= user /\ ~is_staff(user)
       THEN Respond("forbidden") /\ UNCHANGED inflight
       ELSE Start(Request("comment_moderation", user, comments[c].article, c,
                          comments[c], replies(comments, c) /= {}, NoArticle))

\* comment_moderation from the branch on replies.exists().
comment_moderation_apply(req) ==
    /\ req.op = "comment_moderation"
    /\ IF req.has_replies
       THEN LET saved == Comment_save(comments, nextPk, req.pk,
                           [req.row EXCEPT !.content = SentinelModeration], TRUE)
            IN /\ comments' = saved.comments
               /\ Respond(IF saved.ok THEN "moderated_marked" ELSE "server_error")
       ELSE /\ comments' = delete(comments, req.pk)
            /\ Respond("moderated_deleted")
    /\ Finish(req)
    /\ UNCHANGED <<articles, nextPk>>

ConcPkInputs == 1..MaxConcComments
WithinConcBounds ==
    /\ nextPk' <= MaxConcComments + 1
    /\ \A a \in ArticlePks : articles'[a].views_count <= MaxConcViews

\* The requests on article 1, interleaved at their reads and writes.
NextConc ==
    \/ \E user \in Users : add_comment(user, 1, TextNew) /\ WithinConcBounds
    \/ \E user \in Requesters : get_object_load(user, 1)
    \/ \E req \in InFlight("detail") : get_object_increment(req) /\ WithinConcBounds
    \/ \E user \in Users, c \in ConcPkInputs : add_reply_prepare(user, 1, c, TextNew)
    \/ \E req \in InFlight("add_reply") : add_reply_save(req) /\ WithinConcBounds
    \/ \E user \in Users, c \in ConcPkInputs : delete_comment_check(user, 1, c)
    \/ \E req \in InFlight("delete_comment") : delete_comment_apply(req)
    \/ \E user \in Users, c \in ConcPkInputs : comment_moderation_check(user, c)
    \/ \E req \in InFlight("comment_moderation") : comment_moderation_apply(req)

SpecConc == Init /\ [][NextConc]_vars

\* ------------------------------------------------------------ ArticleForm
\* ArticleForm.clean_title on the stripped value the field hands it; pk is
\* the key of the form's instance.
clean_title(arts, pk, title) ==
    IF len(strip(title)) < MinTitleLen THEN [ok |-> FALSE, title |-> strip(title)]
    ELSE IF \E a \in DOMAIN arts \ {pk} : iexact(arts[a].title, title)
    THEN [ok |-> FALSE, title |-> strip(title)]
    ELSE [ok |-> TRUE, title |-> strip(title)]

\* ArticleForm.clean_body
clean_body(body) ==
    IF len(strip(body)) < MinBodyLen THEN [ok |-> FALSE, body |-> strip(body)]
    ELSE [ok |-> TRUE, body |-> strip(body)]

\* ArticleForm.is_valid() of a post without an upload: both fields required,
\* the title at most 255 characters, then the two clean methods.
ArticleForm_is_valid(arts, pk, post) ==
    /\ len(strip(post.title)) > 0
    /\ len(strip(post.title)) <= MaxTitleLen
    /\ clean_title(arts, pk, strip(post.title)).ok
    /\ len(strip(post.body)) > 0
    /\ clean_body(strip(post.body)).ok

\* ------------------------------------------------------- ArticleUpdateView
\* ArticleUpdateView up to the validated form: the instance loaded by
\* get_object with the cleaned title and body set on it.
ArticleUpdateView_load(user, method, a, post) ==
    /\ UNCHANGED <<articles, comments, nextPk>>
    /\ IF ~is_authenticated(user)
       THEN Respond("login_required") /\ UNCHANGED inflight
       ELSE IF a \notin DOMAIN articles
       THEN Respond("not_found") /\ UNCHANGED inflight
       ELSE IF ~can_edit(articles[a], user)
       THEN Respond("forbidden") /\ UNCHANGED inflight
       ELSE IF method /= "POST"
       THEN Respond("rendered") /\ UNCHANGED inflight
       ELSE IF ~ArticleForm_is_valid(articles, a, post)
       THEN Respond("invalid") /\ UNCHANGED inflight
       ELSE Start(Request("update", user, a, NonePk, NoRow, FALSE,
                          [articles[a] EXCEPT
                             !.title = clean_title(articles, a, strip(post.title)).title,
                             !.body = clean_body(strip(post.body)).body]))

\* form.save(): Article.save() of the instance, every column written
\* (UPDATE, else INSERT).
ArticleUpdateView_save(req) ==
    /\ req.op = "update"
    /\ articles' = [b \in DOMAIN articles \cup {req.a} |->
                      IF b = req.a THEN req.obj ELSE articles[b]]
    /\ Finish(req)
    /\ Respond("updated")
    /\ UNCHANGED <<comments, nextPk>>

\* ArticleAdmin.make_published / make_unpublished on the selected rows.
make_published(user, queryset) ==
    /\ UNCHANGED <<comments, nextPk, inflight>>
    /\ IF ~is_staff(user)
       THEN Respond("login_required") /\ UNCHANGED articles
       ELSE /\ articles' = [b \in DOMAIN articles |->
                              IF b \in queryset
                              THEN [articles[b] EXCEPT !.is_published = TRUE]
                              ELSE articles[b]]
            /\ Respond("published")

make_unpublished(user, queryset) ==
    /\ UNCHANGED <<comments, nextPk, inflight>>
    /\ IF ~is_staff(user)
       THEN Respond("login_required") /\ UNCHANGED articles
       ELSE /\ articles' = [b \in DOMAIN articles |->
                              IF b \in queryset
                              THEN [articles[b] EXCEPT !.is_published = FALSE]
                              ELSE articles[b]]
            /\ Respond("unpublished")

\* What the edit form posts.
ArticlePost(t, b) == [title |-> t, body |-> b]
NoPost == ArticlePost(NoText, NoText)
ArticlePosts ==
    {ArticlePost(TitleNew, BodyNew), ArticlePost(TitleUpper, BodyNew),
     ArticlePost(TitleShort, BodyNew), ArticlePost(TitleNew, BodyShort)}

WithinArticleBounds ==
    \A a \in DOMAIN articles' : articles'[a].views_count <= MaxArticleViews

\* Detail views and edits of article 1, interleaved at their reads and
\* writes, and the admin's publication actions on it.
NextArticle ==
    \/ \E user \in Requesters : get_object_load(user, 1)
    \/ \E req \in InFlight("detail") : get_object_increment(req) /\ WithinArticleBounds
    \/ \E user \in Requesters, a \in ArticlePkInputs :
         Authenticated(user, a, 1) /\ ArticleUpdateView_load(user, "GET", a, NoPost)
    \/ \E user \in Users, post \in ArticlePosts :
         ArticleUpdateView_load(user, "POST", 1, post)
    \/ \E req \in InFlight("update") : ArticleUpdateView_save(req)
    \/ \E user \in Users : make_published(user, {1})
    \/ \E user \in Users : make_unpublished(user, {1})

SpecArticle == Init /\ [][NextArticle]_vars

\* ------------------------------------------------------- ArticleCreateView
MetaWords == 25

\* ' '.join(body.split()[:k])
first_words(body, k) ==
    IF body.words <= k THEN body.core
    ELSE "first " \o ToString(k) \o " words of " \o body.core

\* The key the store gives a new article (no article is deleted where
\* articles are created).
next_article_pk(arts) == Cardinality(DOMAIN arts) + 1

\* ArticleCreateView up to form_valid: the new instance with the cleaned
\* title and body, its author and the generated meta description.
ArticleCreateView_load(user, method, post) ==
    /\ UNCHANGED <<articles, comments, nextPk>>
    /\ IF ~is_authenticated(user)
       THEN Respond("login_required") /\ UNCHANGED inflight
       ELSE IF method /= "POST"
       THEN Respond("rendered") /\ UNCHANGED inflight
       ELSE IF ~ArticleForm_is_valid(articles, NonePk, post)
       THEN Respond("invalid") /\ UNCHANGED inflight
       ELSE Start(Request("create", user, NonePk, NonePk, NoRow, FALSE,
                          [Article(user,
                                   clean_title(articles, NonePk, strip(post.title)).title,
                                   clean_body(strip(post.body)).body)
                             EXCEPT !.meta_description =
                                      first_words(clean_body(strip(post.body)).body,
                                                  MetaWords) \o "..."]))

\* super().form_valid(form): the INSERT of the new row.
ArticleCreateView_save(req) ==
    /\ req.op = "create"
    /\ articles' = [b \in DOMAIN articles \cup {next_article_pk(articles)} |->
                      IF b \in DOMAIN articles THEN articles[b] ELSE req.obj]
    /\ Finish(req)
    /\ Respond("article_created")
    /\ UNCHANGED <<comments, nextPk>>

TitlePosts == {ArticlePost(TitleNew, BodyNew), ArticlePost(TitleUpper, BodyNew)}
WithinTitleBounds == Cardinality(DOMAIN articles') <= MaxArticles

\* Articles created and edited, the requests interleaved at their saves.
NextTitles ==
    \/ \E user \in Requesters :
         \/ ArticleCreateView_load(user, "GET", NoPost)
         \/ \E post \in TitlePosts : ArticleCreateView_load(user, "POST", post)
    \/ \E req \in InFlight("create") : ArticleCreateView_save(req) /\ WithinTitleBounds
    \/ \E user \in Users, a \in ArticlePks, post \in TitlePosts :
         ArticleUpdateView_load(user, "POST", a, post)
    \/ \E req \in InFlight("update") : ArticleUpdateView_save(req)

SpecTitles == Init /\ [][NextTitles]_vars

\* ------------------------------------------------------- ArticleDeleteView
\* (the collector stopping at the article's root comments)
Article_delete_collect_roots(cs, a) ==
    {c \in DOMAIN cs : cs[c].article = a /\ cs[c].parent = NonePk}

\* The comments Model.delete() of an article collects: those of the article
\* through the CASCADE article key, and from them on through the parent key.
Article_delete_collect(cs, a) ==
    delete_collect(cs, {c \in DOMAIN cs : cs[c].article = a})

ArticleDeleteView(user, method, a) ==
    /\ UNCHANGED <<nextPk, inflight>>
    /\ IF ~is_authenticated(user)
       THEN Respond("login_required") /\ UNCHANGED <<articles, comments>>
       ELSE IF a \notin DOMAIN articles
       THEN Respond("not_found") /\ UNCHANGED <<articles, comments>>
       ELSE IF ~can_delete(articles[a], user)
       THEN Respond("forbidden") /\ UNCHANGED <<articles, comments>>
       ELSE IF method /= "POST"
       THEN Respond("rendered") /\ UNCHANGED <<articles, comments>>
       ELSE /\ comments' = [c \in DOMAIN comments \ Article_delete_collect(comments, a)
                              |-> comments[c]]
            /\ articles' = [b \in DOMAIN articles \ {a} |-> articles[b]]
            /\ Respond("article_deleted")

CascadePkInputs == 1..MaxCascadeComments
WithinCascadeBounds == nextPk' <= MaxCascadeComments + 1

\* Comments and replies on the two articles, the replies interleaved at
\* their save, and the deletion of articles.
NextCascade ==
    \/ \E user \in Users, a \in ArticlePks :
         add_comment(user, a, TextNew) /\ WithinCascadeBounds
    \/ \E user \in Users, a \in ArticlePks, c \in CascadePkInputs :
         add_reply_prepare(user, a, c, TextNew)
    \/ \E req \in InFlight("add_reply") : add_reply_save(req) /\ WithinCascadeBounds
    \/ \E user \in Requesters, a \in ArticlePkInputs :
         /\ Authenticated(user, a, 1)
         /\ \/ ArticleDeleteView(user, "GET", a)
            \/ ArticleDeleteView(user, "POST", a)

SpecCascade == Init /\ [][NextCascade]_vars

\* ---------------------------------------------------- Article.reading_time
WordsPerMinute == 200
ReadingSuffix == " min de lectura"

\* (the quotient rounded half up)
round_half_up(n, d) == (2 * n + d) \div (2 * d)

\* round(n / d) of Python 3: the nearest integer, a tie going to the even one.
round(n, d) ==
    LET q == n \div d
        r == n % d
    IN IF 2 * r < d THEN q
       ELSE IF 2 * r > d THEN q + 1
       ELSE IF q % 2 = 0 THEN q ELSE q + 1

max(x, y) == IF x >= y THEN x ELSE y

\* Article.reading_time as the admin's list shows it for article a.
reading_time(a) ==
    /\ a \in DOMAIN articles
    /\ LET word_count == articles[a].body.words
       IN Respond(ToString(max(1, round(word_count, WordsPerMinute))) \o ReadingSuffix)
    /\ UNCHANGED <<articles, comments, nextPk, inflight>>

\* A body of w one-letter words, as the admin's form stores it.
WordsBody(w) == Body(0, ToString(w) \o " words", 2 * w - 1, 0, w)

InitReading ==
    /\ \E w \in 1..MaxWords :
         articles = [a \in {1} |-> Article("bob", TitleDrift, WordsBody(w))]
    /\ comments = << >>
    /\ nextPk = 1
    /\ inflight = EmptyBag
    /\ response = "none"

NextReading == \E a \in ArticlePks : reading_time(a)

SpecReading == InitReading /\ [][NextReading]_vars

\* ------------------------------------------- comments of a withdrawn article
WithinUnpublishedBounds ==
    /\ nextPk' <= MaxUnpublishedComments + 1
    /\ articles'[1].views_count <= MaxUnpublishedViews

\* The comment views and the detail view on article 1, each request served
\* from start to end, while the admin publishes and withdraws the article.
NextUnpublished ==
    \/ \E user \in Users : make_published(user, {1})
    \/ \E user \in Users : make_unpublished(user, {1})
    \/ \E user \in Requesters : ArticleDetailView(user, 1) /\ WithinUnpublishedBounds
    \/ \E user \in Users : add_comment(user, 1, TextNew) /\ WithinUnpublishedBounds
    \/ \E user \in Users, c \in 1..MaxUnpublishedComments :
         add_reply(user, 1, c, TextNew) /\ WithinUnpublishedBounds
    \/ \E user \in Users, c \in 1..MaxUnpublishedComments :
         edit_comment(user, "POST", 1, c, TextEdit)
    \/ \E user \in Users, c \in 1..MaxUnpublishedComments :
         delete_comment(user, 1, c)
    \/ \E user \in Users, c \in 1..MaxUnpublishedComments :
         comment_moderation(user, "POST", c, "delete")

SpecUnpublished == Init /\ [][NextUnpublished]_vars

\* ------------------------------------------- parents changed in the admin
\* CommentAdmin.get_form: the parents the change form of obj offers, the
\* root comments of obj's article.
parent_choices(cs, obj) ==
    {p \in DOMAIN cs : cs[p].article = obj.article /\ cs[p].parent = NonePk}

\* The admin's change form of comment c posted with another parent.
CommentAdmin_change(user, c, parent) ==
    /\ UNCHANGED <<articles, nextPk, inflight>>
    /\ IF ~is_staff(user)
       THEN Respond("login_required") /\ UNCHANGED comments
       ELSE IF c \notin DOMAIN comments
       THEN Respond("not_found") /\ UNCHANGED comments
       ELSE IF parent /= NonePk /\ parent \notin parent_choices(comments, comments[c])
       THEN Respond("invalid") /\ UNCHANGED comments
       ELSE LET saved == Comment_save(comments, nextPk, c,
                           [comments[c] EXCEPT !.parent = parent], FALSE)
            IN /\ comments' = saved.comments
               /\ Respond(IF saved.ok THEN "changed" ELSE "server_error")

WithinCycleBounds ==
    Cardinality({c \in DOMAIN comments' : comments'[c].is_edited}) <= MaxParentChanges

\* Threads built in the admin, their parents changed there, and the depth
\* the admin shows. A user who is not staff is turned away whatever the form
\* names, so the model posts one such form.
NextCycle ==
    \/ \E user \in Users, c \in 1..MaxTreeNodes, parent \in 0..MaxTreeNodes :
         /\ is_staff(user) \/ (c = 1 /\ parent = NonePk)
         /\ CommentAdmin_change(user, c, parent) /\ WithinCycleBounds
    \/ \E c \in 1..MaxTreeNodes : comment_depth_display(c)

SpecCycle == InitTree /\ [][NextCycle]_vars

\* ================================================================= claims
\* The number of parent hops from a comment up to a root comment.
RECURSIVE RealDepth(_, _)
RealDepth(cs, c) ==
    IF cs[c].parent = NonePk THEN 0 ELSE 1 + RealDepth(cs, cs[c].parent)

Min(x, y) == IF x <= y THEN x ELSE y

\* The strict descendants of c.
Descendants(cs, c) == delete_collect(cs, {c}) \ {c}

\* A delete request for comment c that reaches the deletion: by
\* delete_comment (author or staff) or by the moderation action (staff).
DeletionRequest(c) ==
    \/ \E user \in Users :
         /\ article_found(comments[c].article)
         /\ can_delete(comments[c], user)
         /\ delete_comment(user, comments[c].article, c)
    \/ \E user \in Users :
         /\ is_staff(user)
         /\ comment_moderation(user, "POST", c, "delete")

\* C1: whatever comment requests were served, every stored comment lies at
\* most 2 parent hops below a root comment.
C1_NestingAtMostTwo ==
    \A c \in DOMAIN comments : RealDepth(comments, c) <= 2

C1_Witness ==
    /\ response = "replied"
    /\ \E c \in DOMAIN comments : RealDepth(comments, c) = 2

\* C2: add_reply on a parent lying 2 or more hops deep answers with the
\* depth error for every logged-in user and every content, and the stored
\* comments stay as they were.
C2_DeepReplyRefused ==
    [][\A c \in DOMAIN comments :
          (article_found(comments[c].article) /\ RealDepth(comments, c) >= 2)
          => \A user \in Users, text \in ThreadTexts :
               add_reply(user, comments[c].article, c, text)
               => (response' = "depth_exceeded" /\ comments' = comments)]_vars

C2_Witness ==
    /\ response = "depth_exceeded"
    /\ \E c \in DOMAIN comments : RealDepth(comments, c) >= 2

\* C3: get_reply_depth of every comment lies in 0..3 and is the smaller of
\* its number of parent hops and 3.
C3_DepthIsCappedHops ==
    \A c \in DOMAIN comments :
        LET d == get_reply_depth(comments, c)
        IN d \in 0..3 /\ d = Min(RealDepth(comments, c), 3)

C3_Witness ==
    /\ response = "Nivel 3"
    /\ \E c \in DOMAIN comments : RealDepth(comments, c) > 3

\* C4: a comment with a parent is on its parent's article, and add_reply
\* naming a comment of another article than the URL's creates nothing.
C4_ParentOnSameArticle ==
    /\ [](\A c \in DOMAIN comments :
            comments[c].parent /= NonePk =>
              /\ comments[c].parent \in DOMAIN comments
              /\ comments[comments[c].parent].article = comments[c].article)
    /\ [][\A c \in DOMAIN comments : \A a \in ArticlePks \ {comments[c].article} :
            (comments' = comments /\ nextPk' = nextPk)
            \/ \A user \in Users, text \in ReplyTexts : ~add_reply(user, a, c, text)]_vars

C4_Witness ==
    /\ response = "not_found"
    /\ \E c, d \in DOMAIN comments : comments[c].article /= comments[d].article

\* C5: deleting a comment that has a reply keeps its row, with the content
\* replaced by a deletion sentinel, and keeps every descendant's parent and
\* depth.
C5_SoftDeleteKeepsThread ==
    [][\A c \in DOMAIN comments :
          (replies(comments, c) /= {} /\ DeletionRequest(c))
          => /\ c \in DOMAIN comments'
             /\ comments'[c].content \in {SentinelUser, SentinelModeration}
             /\ \A d \in Descendants(comments, c) :
                  /\ d \in DOMAIN comments'
                  /\ comments'[d].parent = comments[d].parent
                  /\ RealDepth(comments', d) = RealDepth(comments, d)]_vars

\* C6: deleting a comment that has a reply clears the author of its stored
\* row, on the delete_comment path and on the moderation path.
C6_SoftDeleteClearsAuthor ==
    [][\A c \in DOMAIN comments :
          (replies(comments, c) /= {} /\ DeletionRequest(c))
          => (c \in DOMAIN comments' /\ comments'[c].author = None)]_vars

\* C7: deleting a comment without replies removes that row and leaves every
\* other row as it was.
C7_LeafDeleteRemovesOneRow ==
    [][\A c \in DOMAIN comments :
          (replies(comments, c) = {} /\ DeletionRequest(c))
          => /\ DOMAIN comments' = DOMAIN comments \ {c}
             /\ \A d \in DOMAIN comments' : comments'[d] = comments[d]]_vars

C7_Witness ==
    /\ response \in {"deleted", "moderated_deleted"}
    /\ nextPk = MaxComments + 1
    /\ Cardinality(DOMAIN comments) = MaxComments - 1

\* C8: no step of the comment requests removes a comment to which a reply
\* exists.
C8_RemovedOnlyWithoutReplies ==
    [][\A c \in DOMAIN comments :
          c \notin DOMAIN comments' => replies(comments, c) = {}]_vars

\* C9: a detail view of a published article by its author leaves views_count
\* alone; by anyone else, logged in or not, it adds exactly 1.
C9_ViewCountsNonAuthors ==
    [][\A user \in Requesters, a \in ArticlePks :
          (article_found(a) /\ ArticleDetailView(user, a))
          => /\ articles'[a].views_count =
                  articles[a].views_count + (IF user = articles[a].author THEN 0 ELSE 1)
             /\ \A b \in ArticlePks \ {a} : articles'[b] = articles[b]]_vars

C9_Witness ==
    /\ response = "detail"
    /\ articles[1].views_count = 2
    /\ articles[2].views_count = 1

\* C10: every detail view by a non-author that completes leaves the stored
\* views_count one higher than it was, also when views overlap.
C10_NoIncrementLost ==
    [][\A req \in InFlight("detail") :
          get_object_increment(req)
          => articles'[req.a].views_count = articles[req.a].views_count + 1]_vars

\* C11: no step lowers the stored views_count of an article: not a detail
\* view, not overlapping detail views, not an edit that saves the row it
\* loaded.
C11_ViewsNeverLowered ==
    [][\A a \in DOMAIN articles \cap DOMAIN articles' :
          articles'[a].views_count >= articles[a].views_count]_vars

\* C12: the save of increment_views writes views_count alone: every other
\* column of every article is after it what was stored before it, also when
\* the row was changed since the viewer loaded it.
C12_IncrementWritesOnlyViews ==
    [][\A req \in InFlight("detail") :
          get_object_increment(req)
          => /\ DOMAIN articles' = DOMAIN articles
             /\ \A a \in DOMAIN articles :
                  [articles'[a] EXCEPT !.views_count = 0]
                    = [articles[a] EXCEPT !.views_count = 0]]_vars

\* A view counted on an article that was retitled, and unpublished after the
\* viewer loaded it.
C12_Witness ==
    /\ response = "detail"
    /\ ~articles[1].is_published
    /\ articles[1].title = strip(TitleNew)
    /\ articles[1].views_count >= 1

\* The methods of a request and the two deletion sentinels.
Methods == {"GET", "POST"}
Sentinels == {SentinelUser, SentinelModeration}

\* An edit of comment c that passes every test of edit_comment.
SuccessfulEdit(c, user, text) ==
    /\ article_found(comments[c].article)
    /\ can_edit(comments[c], user)
    /\ is_valid(text)
    /\ edit_comment(user, "POST", comments[c].article, c, text)

\* C13: an edit_comment with valid content by a permitted editor leaves the
\* comment stored with the new content and is_edited = true, whatever
\* is_edited was before.
C13_EditSetsEdited ==
    [][\A c \in DOMAIN comments : \A user \in Users, text \in EditTexts :
          SuccessfulEdit(c, user, text)
          => /\ response' = "edited"
             /\ c \in DOMAIN comments'
             /\ comments'[c].content = strip(text)
             /\ comments'[c].is_edited]_vars

C13_Witness ==
    /\ response = "edited"
    /\ \E c \in DOMAIN comments :
         comments[c].is_edited /\ comments[c].content = TextEdit

\* C14 as stated: every save of an existing comment, by edit_comment and by
\* the soft-delete of delete_comment and of comment_moderation, leaves
\* is_edited = true.
C14_EverySaveSetsEdited ==
    [][\A c \in DOMAIN comments :
          \/ \E user \in Users, text \in EditTexts : SuccessfulEdit(c, user, text)
          \/ replies(comments, c) /= {} /\ DeletionRequest(c)
          => (c \in DOMAIN comments' /\ comments'[c].is_edited)]_vars

\* C14 amended: a save of an existing comment sets is_edited unless it passes
\* skip_edited_flag: the save of edit_comment leaves is_edited = true, the
\* soft-delete of delete_comment and of comment_moderation leaves is_edited
\* what it was.
C14_SaveSetsEditedUnlessSkipped ==
    [][\A c \in DOMAIN comments :
          /\ (\E user \in Users, text \in EditTexts : SuccessfulEdit(c, user, text))
             => (c \in DOMAIN comments' /\ comments'[c].is_edited)
          /\ (replies(comments, c) /= {} /\ DeletionRequest(c))
             => /\ c \in DOMAIN comments'
                /\ comments'[c].is_edited = comments[c].is_edited]_vars

C14_Witness ==
    /\ response = "moderated_marked"
    /\ \E c \in DOMAIN comments :
         comments[c].content = SentinelModeration /\ ~comments[c].is_edited

\* C15: add_comment with valid content, and add_reply with valid content on
\* a parent the depth guard lets through, store one new row, with
\* is_edited = false.
C15_CreatedNotEdited ==
    [][/\ \A user \in Users, a \in ArticlePks, text \in NewTexts :
            (article_found(a) /\ is_valid(text) /\ add_comment(user, a, text))
            => /\ response' = "created"
               /\ DOMAIN comments' = DOMAIN comments \cup {nextPk}
               /\ nextPk \notin DOMAIN comments
               /\ ~comments'[nextPk].is_edited
       /\ \A c \in DOMAIN comments : \A user \in Users, text \in ReplyTexts :
            (article_found(comments[c].article) /\ is_valid(text)
               /\ get_reply_depth(comments, c) < ReplyGuardDepth
               /\ add_reply(user, comments[c].article, c, text))
            => /\ response' = "replied"
               /\ DOMAIN comments' = DOMAIN comments \cup {nextPk}
               /\ nextPk \notin DOMAIN comments
               /\ ~comments'[nextPk].is_edited]_vars

C15_Witness ==
    /\ response \in {"created", "replied"}
    /\ nextPk - 1 \in DOMAIN comments
    /\ ~comments[nextPk - 1].is_edited
    /\ \E c \in DOMAIN comments : comments[c].is_edited

\* C16: edit_comment by someone who is neither the comment's author nor staff
\* is refused (with the permission message, or the login redirect for a
\* visitor not logged in) and leaves every comment as it was; a step of
\* edit_comment changes the content only for the author or staff.
C16_EditNeedsAuthorOrStaff ==
    [][\A c \in DOMAIN comments :
          article_found(comments[c].article)
          => \A user \in Requesters, method \in Methods, text \in EditTexts :
               edit_comment(user, method, comments[c].article, c, text)
               => /\ (user /= comments[c].author /\ ~is_staff(user))
                     => /\ comments' = comments
                        /\ response' = IF is_authenticated(user)
                                       THEN "edit_forbidden" ELSE "login_required"
                  /\ (c \notin DOMAIN comments'
                        \/ comments'[c].content /= comments[c].content)
                     => (user = comments[c].author \/ is_staff(user))]_vars

C16_Witness ==
    /\ response = "edit_forbidden"
    /\ \E c \in DOMAIN comments : comments[c].author = "admin"

\* C17: delete_comment by someone who is neither the comment's author nor
\* staff is refused (with the permission message, or the login redirect for a
\* visitor not logged in) and removes or changes no comment.
C17_DeleteNeedsAuthorOrStaff ==
    [][\A c \in DOMAIN comments :
          article_found(comments[c].article)
          => \A user \in Requesters :
               (user /= comments[c].author /\ ~is_staff(user)
                  /\ delete_comment(user, comments[c].article, c))
               => /\ comments' = comments
                  /\ response' = IF is_authenticated(user)
                                 THEN "delete_forbidden" ELSE "login_required"]_vars

C17_Witness ==
    /\ response = "delete_forbidden"
    /\ \E c \in DOMAIN comments : comments[c].author = "admin"

\* The stripped text is shorter than 5 or longer than 1000 characters.
BadLength(text) ==
    len(strip(text)) < MinContentLen \/ len(strip(text)) > MaxContentLen

\* C18: add_comment, add_reply and edit_comment with content whose stripped
\* length is under 5 or over 1000 store nothing and, when the request reaches
\* the form, answer with the form's errors; every stored content other than a
\* sentinel has a stripped length from 5 to 1000.
C18_ContentLength ==
    /\ [](\A c \in DOMAIN comments :
            comments[c].content \notin Sentinels
            => len(strip(comments[c].content)) \in MinContentLen..MaxContentLen)
    /\ [][/\ \A text \in {t \in NewTexts : BadLength(t)} :
               \A user \in Users, a \in ArticlePks :
                 add_comment(user, a, text)
                 => /\ comments' = comments /\ nextPk' = nextPk
                    /\ article_found(a) => response' = "invalid"
          /\ \A text \in {t \in ReplyTexts : BadLength(t)} :
               \A c \in DOMAIN comments : \A user \in Users :
                 add_reply(user, comments[c].article, c, text)
                 => /\ comments' = comments /\ nextPk' = nextPk
                    /\ (article_found(comments[c].article)
                          /\ get_reply_depth(comments, c) < ReplyGuardDepth)
                       => response' = "invalid"
          /\ \A text \in {t \in EditTexts : BadLength(t)} :
               \A c \in DOMAIN comments : \A user \in Users :
                 edit_comment(user, "POST", comments[c].article, c, text)
                 => /\ comments' = comments
                    /\ (article_found(comments[c].article)
                          /\ can_edit(comments[c], user))
                       => response' = "invalid"]_vars

C18_Witness ==
    /\ response = "invalid"
    /\ \E c, d \in DOMAIN comments :
         /\ len(comments[c].content) = MinContentLen
         /\ len(comments[d].content) = MaxContentLen

\* C20: a comment_moderation 'delete' posted by the author of the comment's
\* article, staff or not, or by staff removes the comment or replaces its
\* content by the sentinel; posted by anyone else it changes nothing.
C20_ArticleAuthorModerates ==
    [][\A c \in DOMAIN comments : \A user \in Users :
          comment_moderation(user, "POST", c, "delete")
          => IF user = articles[comments[c].article].author \/ is_staff(user)
             THEN \/ c \notin DOMAIN comments'
                  \/ comments'[c].content = SentinelModeration
             ELSE comments' = comments]_vars

\* C19: every stored comment is on a stored article and its parent, if it
\* has one, is a stored comment; so once an article is deleted no comment of
\* it is left.
C19_CommentsFollowArticle ==
    \A c \in DOMAIN comments :
        /\ comments[c].article \in DOMAIN articles
        /\ comments[c].parent /= NonePk => comments[c].parent \in DOMAIN comments

\* An article deleted after two comments were stored on it.
C19_Witness ==
    /\ response = "article_deleted"
    /\ DOMAIN articles /= ArticlePks
    /\ nextPk > 2
    /\ Cardinality(DOMAIN comments) <= nextPk - 3

\* C21: a create or edit posting a title equal, without regard to case, to
\* another article's title fails validation, and no two stored articles have
\* such titles, whatever create and edit requests were served and however
\* they overlapped.
C21_TitlesUnique ==
    /\ [](\A a, b \in DOMAIN articles :
            a /= b => ~iexact(articles[a].title, articles[b].title))
    /\ [][\A post \in TitlePosts :
            /\ (\E b \in DOMAIN articles : iexact(articles[b].title, strip(post.title)))
               => \A user \in Users :
                    ArticleCreateView_load(user, "POST", post)
                    => (response' = "invalid" /\ inflight' = inflight)
            /\ \A a \in DOMAIN articles :
                 (\E b \in DOMAIN articles \ {a} :
                    iexact(articles[b].title, strip(post.title)))
                 => \A user \in Users :
                      (can_edit(articles[a], user)
                         /\ ArticleUpdateView_load(user, "POST", a, post))
                      => (response' = "invalid" /\ inflight' = inflight)]_vars

\* The reading time last shown is that of article 1, of w words.
ShownFor(w) == response /= "none" /\ articles[1].body.words = w

Distance(x, y) == IF x >= y THEN x - y ELSE y - x

\* C22 as stated: reading_time is N ' min de lectura', N the word count over
\* 200 rounded to the nearest integer with a tie rounded up (500 words give
\* 3), and at least 1.
C22_RoundsHalfUp ==
    \A w \in 1..MaxWords :
        ShownFor(w)
        => \E N \in 1..MaxWords :
             /\ response = ToString(N) \o ReadingSuffix
             /\ \/ N = 1 /\ w <= 100
                \/ /\ Distance(200 * N, w) <= 100
                   /\ Distance(200 * N, w) = 100 => 200 * N > w

\* C22 amended: N is the word count over 200 rounded to the nearest integer
\* with a tie going to the even integer (300 words give 2, 500 give 2, 700
\* give 4), and at least 1 (up to 299 words give 1, 400 give 2).
C22_RoundsHalfEven ==
    \A w \in 1..MaxWords :
        ShownFor(w)
        => \E N \in 1..MaxWords :
             /\ response = ToString(N) \o ReadingSuffix
             /\ \/ N = 1 /\ w <= 100
                \/ /\ Distance(200 * N, w) <= 100
                   /\ Distance(200 * N, w) = 100 => N % 2 = 0

C22_Witness ==
    /\ response = "2" \o ReadingSuffix
    /\ articles[1].body.words = 500

\* The rows of the comments on article a.
CommentsOn(cs, a) == [c \in {d \in DOMAIN cs : cs[d].article = a} |-> cs[c]]

\* C23: while an article is not published, no request creates, edits,
\* soft-deletes or removes a comment on it (add_comment, add_reply,
\* edit_comment, delete_comment and comment_moderation leave its comments as
\* they are) and a detail view leaves its views_count as it is.
C23_UnpublishedFrozen ==
    [][\A a \in DOMAIN articles :
         ~articles[a].is_published
         => /\ CommentsOn(comments', a) = CommentsOn(comments, a)
            /\ articles'[a].views_count = articles[a].views_count]_vars

\* The comment k parent hops above c, NonePk when the chain ends before.
RECURSIVE Ancestor(_, _, _)
Ancestor(cs, c, k) ==
    IF k = 0 THEN c
    ELSE LET below == Ancestor(cs, c, k - 1)
         IN IF below = NonePk THEN NonePk ELSE cs[below].parent

\* c is its own ancestor within n hops.
OwnAncestor(cs, c, n) == \E k \in 1..n : Ancestor(cs, c, k) = c

\* C24: get_reply_depth ends for every comment after at most 3 parent hops,
\* its result being the hops it made; when the parent chain is cyclic (the
\* comment is its own ancestor) or longer than 3, it returns 3.
C24_DepthWalkEnds ==
    \A c \in DOMAIN comments :
        LET hops == get_reply_depth(comments, c)
        IN /\ hops \in 0..3
           /\ Ancestor(comments, c, hops) /= NonePk
           /\ hops < 3 => Ancestor(comments, c, hops + 1) = NonePk
           /\ OwnAncestor(comments, c, Cardinality(DOMAIN comments)) => hops = 3
           /\ Ancestor(comments, c, 4) /= NonePk => hops = 3

C24_Witness ==
    /\ response = "Nivel 3"
    /\ \E c \in DOMAIN comments :
         /\ OwnAncestor(comments, c, Cardinality(DOMAIN comments))
         /\ \A d \in DOMAIN comments \ {c} : get_reply_depth(comments, d) < 3

====
